---- MODULE Spec2Model ----
(***************************************************************************)
(* Model of lm/mlbl.py: the MLBL trainer (Python 2).                       *)
(*                                                                         *)
(*   Spec            MLBL.train: epochs, minibatches, the NaN check, the   *)
(*                   four periodic side effects, early stopping            *)
(*   SpecSched       MLBL.update_hyperparams called step after step        *)
(*   SpecUpdate      MLBL.update_params on one entry of every parameter    *)
(*   SpecPartition   the per-epoch shuffle and the striped minibatches     *)
(*   SpecDeterminism two runs of train() with the same seed, side by side  *)
(*                                                                         *)
(* Real numbers: momentum coefficients are held in hundredths (50 = 0.5),  *)
(* BLEU scores in tenths, and eta_t as the number n of decays applied      *)
(* (eta_t = eta_0 * f^n).  Python 2 `/` on two ints is floor division and  *)
(* is modelled by \div.                                                    *)
(***************************************************************************)
EXTENDS Integers, Sequences, FiniteSets, TLC

\* ---------------------------------------------------------------- bounds
MaxN == 6           \* len(X) ranges over 0..MaxN
MaxBatch == 2       \* batchsize ranges over 1..MaxBatch
MaxEpoch == 3       \* maxepoch
MaxThreshold == 2   \* prog['_update'], prog['_bleu'] range over 1..MaxThreshold
MaxScore == 1       \* a BLEU score ranges over 0..MaxScore
MaxT == 3           \* SpecSched: T ranges over 1..MaxT
MaxDelta == 1       \* SpecUpdate: a momentum buffer entry is 0 or MaxDelta
MaxGrad == 1        \* SpecUpdate: a gradient entry is -MaxGrad or MaxGrad
MaxShuffleN == 5    \* SpecPartition: len(X) ranges over 0..MaxShuffleN
MaxRunEpochs == 2   \* SpecDeterminism: maxepoch
MaskCells == 2      \* SpecDeterminism: batchsize * h, the cells of a dropout mask

\* ------------------------------------------------------ program constants
patience == 10      \* train(): patience = 10
NumMetrics == 4     \* train(): bleu = [0.0]*4

VARIABLES
    \* MLBL.__init__ arguments, len(X) and the prog record
    cfg,
    \* train(): control
    pc, epoch, minibatch, done,
    \* train(): early stopping
    best, count,
    \* schedule state: self.step, self.eta_t (as decays applied), self.p_t
    step, eta_t, p_t,
    \* parameters: how many update_params calls produced them, and whether the
    \* hidden activation they give is finite, infinite or NaN
    updates, status,
    \* history kept for the properties (not read by any action's guard)
    hist,
    \* update_params: one entry of each parameter and of its momentum buffer
    \* (exact rationals), the rates the call reads, and the state before the call
    params, deltas, rate, before,
    \* the shuffle and the minibatches: inds, the loop position, the last
    \* minibatch's examples and the examples taken so far in this epoch
    inds, part, batch, seen,
    \* two runs of train() side by side
    runs

trainVars == <<cfg, pc, epoch, minibatch, done, best, count, step, eta_t, p_t,
               updates, status, hist>>
updateVars == <<params, deltas, rate, before>>
partVars == <<inds, part, batch, seen>>
detVars == <<runs>>

vars == <<trainVars, updateVars, partVars, detVars>>

\* ------------------------------------------------------------ helpers
Max(a, b) == IF a >= b THEN a ELSE b

\* numbatches = len(inds) / self.batchsize   (Python 2 integer division)
numbatches == cfg.N \div cfg.batchsize

\* compute_bleu returns NumMetrics scores
BleuTuples == [1..NumMetrics -> 0..MaxScore]

\* A bug the comparison could have: the first score, bleu[0], decides.
FirstMetric(bleu) == bleu[1]

\* bleu[-1]
LastMetric(bleu) == bleu[Len(bleu)]

\* A bug the comparison could have: only a strictly better score counts.
ImprovesStrictly(score, b) == score > b

\* if bleu[-1] >= best
Improves(score, b) == score >= b

\* A bug the test could have: `and minibatch > 0` left out.
FiresAtZero(threshold, mb) == (mb * cfg.batchsize) % threshold = 0

\* np.mod(minibatch * self.batchsize, prog[name]) == 0 and minibatch > 0
Fires(threshold, mb) == (mb * cfg.batchsize) % threshold = 0 /\ mb > 0

\* update_hyperparams, on the record [step, eta_t, p_t]
update_hyperparams(s) ==
    LET q == (s.step + 1) \div cfg.T
    IN  [step  |-> s.step,
         eta_t |-> s.eta_t + 1,
         p_t   |-> IF s.step < cfg.T
                   THEN (1 - q) * cfg.p_i + q * cfg.p_f
                   ELSE cfg.p_f]

\* self.update_hyperparams(); self.step += 1
SchedulerStep(s) ==
    LET u == update_hyperparams(s)
    IN  [u EXCEPT !.step = u.step + 1]

\* self.p_t = (1 - (1 / T)) * p_i + (1 / T) * p_f
InitialMomentum(T, p_i, p_f) == (1 - (1 \div T)) * p_i + (1 \div T) * p_f

\* What update_params can leave behind, by the status of the activation acts
\* of this minibatch's forward pass: gradients of a non-finite activation are
\* NaN, and NaN gradients make every parameter NaN.
StatusAfterUpdate(acts) ==
    IF acts = "finite" THEN {"finite", "inf", "nan"} ELSE {"nan"}

\* np.sum(np.isnan(acts)) > 0
IsNan(acts) == acts = "nan"

\* ------------------------------------------------------------ train()
\* The constructor arguments, len(X) and prog that a run is started with.
\* k is the constructor's "validation interval before stopping".
TrainConfigs ==
    [N : 0..MaxN, batchsize : 1..MaxBatch, maxepoch : {MaxEpoch},
     prog : [details : {1}, samples : {MaxThreshold},
             update : 1..MaxThreshold, bleu : 1..MaxThreshold],
     T : {2}, p_i : {50}, p_f : {90}, k : {3}]

\* Nothing has happened yet.  iter: the last pass through the loop body
\* <<epoch, minibatch, left by the NaN check>>; fired: the side effects of that
\* pass; lastEval: <<bleu[-1], best before, count before, checkpoint written>>;
\* ckpt: <<parameters written, their score>>; bestFrom: the parameters whose
\* score best holds.
NoHistory ==
    [evals |-> 0, maxSeen |-> -1, lastEval |-> <<>>, iter |-> <<>>,
     fired |-> {}, ckpt |-> <<>>, bestFrom |-> -1,
     stop |-> "running", bestAtDiv |-> -1, afterDiv |-> {},
     schedAfterStop |-> 0, retval |-> -1]

\* The other specifications' variables, at rest.
UpdateIdle == params = <<>> /\ deltas = <<>> /\ rate = <<>> /\ before = <<>>
PartitionIdle == inds = <<>> /\ part = <<>> /\ batch = <<>> /\ seen = <<>>
RunsIdle == runs = <<>>

\* train() up to the main loop: init_params, self.step = 0, best = 0.0,
\* count = 0, done = False
TrainStart(c) ==
    /\ cfg = c
    /\ pc = "epoch"
    /\ epoch = 0
    /\ minibatch = 0
    /\ done = FALSE
    /\ best = 0
    /\ count = 0
    /\ step = 0
    /\ eta_t = 0
    /\ p_t = InitialMomentum(c.T, c.p_i, c.p_f)
    /\ updates = 0
    /\ status = "finite"
    /\ hist = NoHistory

Init ==
    /\ \E c \in TrainConfigs : TrainStart(c)
    /\ UpdateIdle /\ PartitionIdle /\ RunsIdle

\* A bug the epoch loop could have: `if done: break` left out.
EpochHeadIgnoresDone ==
    /\ pc = "epoch"
    /\ IF epoch >= cfg.maxepoch
       THEN /\ pc' = "returned"
            /\ hist' = [hist EXCEPT !.retval = best]
            /\ UNCHANGED minibatch
       ELSE /\ pc' = IF numbatches > 0 THEN "batch" ELSE "epochend"
            /\ minibatch' = 0
            /\ UNCHANGED hist
    /\ UNCHANGED <<cfg, epoch, done, best, count, step, eta_t, p_t, updates, status>>
    /\ UNCHANGED <<updateVars, partVars, detVars>>

\* for epoch in range(self.maxepoch): if done: break; ...; prng.shuffle(inds)
\* and, once the loop is left, return best
EpochHead ==
    /\ pc = "epoch"
    /\ IF epoch >= cfg.maxepoch \/ done
       THEN /\ pc' = "returned"
            /\ hist' = [hist EXCEPT !.retval = best]
            /\ UNCHANGED minibatch
       ELSE /\ pc' = IF numbatches > 0 THEN "batch" ELSE "epochend"
            /\ minibatch' = 0
            /\ UNCHANGED hist
    /\ UNCHANGED <<cfg, epoch, done, best, count, step, eta_t, p_t, updates, status>>
    /\ UNCHANGED <<updateVars, partVars, detVars>>

\* The history of one pass through the loop body: the forward, backward and
\* update it ran on parameters of status `status`, leaving `newStatus`.
AfterUpdate(h, newStatus) ==
    [h EXCEPT !.afterDiv = IF status # "finite" THEN @ \cup {"forward"} ELSE @,
              !.bestAtDiv = IF status = "finite" /\ newStatus # "finite"
                            THEN best ELSE @]

\* One pass through the body of `for minibatch in range(numbatches)`.
Minibatch ==
    /\ pc = "batch"
    /\ \E newStatus \in StatusAfterUpdate(status) :
        LET acts == status
            hp0 == [step |-> step, eta_t |-> eta_t, p_t |-> p_t]
            hp1 == IF Fires(cfg.prog.update, minibatch) THEN SchedulerStep(hp0) ELSE hp0
            fired0 == {e \in {"details", "samples", "update"} :
                          Fires(cfg.prog[e], minibatch)}
            h0 == [AfterUpdate(hist, newStatus) EXCEPT
                      !.iter = <<epoch, minibatch, IsNan(acts)>>]
            next == minibatch + 1
        IN
        /\ updates' = updates + 1
        /\ status' = newStatus
        /\ \/ \* if np.sum(np.isnan(acts)) > 0: done = True; break
              /\ IsNan(acts)
              /\ done' = TRUE
              /\ pc' = "epochend"
              /\ hist' = [h0 EXCEPT !.fired = {}, !.stop = "diverged"]
              /\ UNCHANGED <<minibatch, best, count, step, eta_t, p_t>>
           \/ \* no evaluation at this minibatch
              /\ ~IsNan(acts)
              /\ ~Fires(cfg.prog.bleu, minibatch)
              /\ step' = hp1.step /\ eta_t' = hp1.eta_t /\ p_t' = hp1.p_t
              /\ minibatch' = next
              /\ pc' = IF next < numbatches THEN "batch" ELSE "epochend"
              /\ hist' = [h0 EXCEPT !.fired = fired0]
              /\ UNCHANGED <<done, best, count>>
           \/ \* bleu = compute_bleu(...); if bleu[-1] >= best: ... else: ...
              /\ ~IsNan(acts)
              /\ Fires(cfg.prog.bleu, minibatch)
              /\ step' = hp1.step /\ eta_t' = hp1.eta_t /\ p_t' = hp1.p_t
              /\ \E bleu \in BleuTuples :
                   LET score == LastMetric(bleu)
                       h1 == [h0 EXCEPT
                                !.fired = fired0 \cup {"bleu"},
                                !.evals = @ + 1,
                                !.maxSeen = Max(@, bleu[NumMetrics]),
                                !.lastEval = <<bleu[NumMetrics], best, count, FALSE>>,
                                !.afterDiv = IF newStatus # "finite"
                                             THEN @ \cup {"eval"} ELSE @]
                   IN
                   IF Improves(score, best)
                   THEN \* count = 0; best = bleu[-1]; save_model(self, self.loc)
                        /\ count' = 0
                        /\ best' = score
                        /\ hist' = [h1 EXCEPT
                                      !.lastEval[4] = TRUE,
                                      !.ckpt = <<updates + 1, bleu[NumMetrics]>>,
                                      !.bestFrom = updates + 1,
                                      !.afterDiv = IF newStatus # "finite"
                                                   THEN @ \cup {"save"} ELSE @]
                        /\ minibatch' = next
                        /\ pc' = IF next < numbatches THEN "batch" ELSE "epochend"
                        /\ UNCHANGED done
                   ELSE \* count += 1; if count == patience: done = True; break
                        /\ count' = count + 1
                        /\ UNCHANGED best
                        /\ IF count + 1 = patience
                           THEN /\ done' = TRUE
                                /\ pc' = "epochend"
                                /\ hist' = [h1 EXCEPT !.stop = "patience"]
                                /\ UNCHANGED minibatch
                           ELSE /\ minibatch' = next
                                /\ pc' = IF next < numbatches THEN "batch" ELSE "epochend"
                                /\ hist' = h1
                                /\ UNCHANGED done
    /\ UNCHANGED <<cfg, epoch>>
    /\ UNCHANGED <<updateVars, partVars, detVars>>

\* After the minibatch loop, also when it was left by break:
\* self.update_hyperparams(); self.step += 1; then the next epoch
EpochEnd ==
    /\ pc = "epochend"
    /\ LET hp == SchedulerStep([step |-> step, eta_t |-> eta_t, p_t |-> p_t])
       IN  step' = hp.step /\ eta_t' = hp.eta_t /\ p_t' = hp.p_t
    /\ epoch' = epoch + 1
    /\ pc' = "epoch"
    /\ hist' = [hist EXCEPT !.schedAfterStop = IF done THEN @ + 1 ELSE @]
    /\ UNCHANGED <<cfg, minibatch, done, best, count, updates, status>>
    /\ UNCHANGED <<updateVars, partVars, detVars>>

Next == EpochHead \/ Minibatch \/ EpochEnd

Spec == Init /\ [][Next]_vars

\* ------------------------------------------------- properties of train()
Events == {"details", "samples", "update", "bleu"}

\* C1: the loop stops by patience exactly at the evaluation where the count of
\* consecutive non-improving evaluations reaches the configured threshold --
\* the constructor's k, "validation interval before stopping" -- and not
\* before.  (train() never reads self.k: it compares with its own patience = 10.)
C1_StopsAtConfiguredPatience ==
    (hist.stop = "patience") <=> (count = cfg.k)

\* C2: when an update makes the hidden activation non-finite, the loop is
\* stopped within that same minibatch, no forward/backward/update, evaluation
\* or checkpoint write follows, and the best score recorded before is returned.
C2_StopsWithinDivergingMinibatch ==
    /\ status # "finite" => done
    /\ hist.afterDiv = {}
    /\ (pc = "returned" /\ hist.bestAtDiv # -1) => hist.retval = hist.bestAtDiv

\* C3: the value train() returns is the maximum of bleu[-1] over the
\* evaluations of the run, however the run ended, and best never decreases.
C3_ReturnsBestScore ==
    /\ [][best' >= best]_vars
    /\ [](pc = "returned" /\ hist.evals > 0 => hist.retval = hist.maxSeen)

C3_Witness ==
    /\ pc = "returned"
    /\ hist.stop = "diverged"
    /\ hist.evals > 1
    /\ hist.lastEval[1] < hist.retval

\* C4: an evaluation writes a checkpoint iff its score >= best so far, and
\* once a checkpoint exists the parameters in it are those whose evaluation
\* gave the current best score.
C4_CheckpointHoldsBest ==
    /\ hist.lastEval # <<>> =>
          (hist.lastEval[4] <=> hist.lastEval[1] >= hist.lastEval[2])
    /\ hist.ckpt # <<>> =>
          /\ hist.ckpt[1] = hist.bestFrom
          /\ hist.ckpt[2] = best

C4_Witness ==
    /\ hist.ckpt # <<>>
    /\ hist.ckpt[1] < updates
    /\ hist.lastEval[4] = FALSE
    /\ hist.evals > 2
    /\ best > 0

\* C9 as stated: a side effect fires at a minibatch that ran its checks exactly
\* when the minibatch index is non-zero and the points processed over the
\* whole run are a multiple of the event's threshold.
C9_FiresOnCumulativePoints ==
    (hist.iter # <<>> /\ ~hist.iter[3]) =>
        \A e \in Events :
            e \in hist.fired <=>
                /\ hist.iter[2] > 0
                /\ ((hist.iter[1] * numbatches + hist.iter[2]) * cfg.batchsize)
                       % cfg.prog[e] = 0

\* C9, amended: a side effect fires at a minibatch exactly when the minibatch
\* was not left by the NaN check, its index is non-zero and
\* minibatch * batchsize -- the points of the current epoch, counted from 0
\* again in every epoch -- is a multiple of the event's threshold.
C9_FiresOnEpochPoints ==
    hist.iter # <<>> =>
        \A e \in Events :
            e \in hist.fired <=>
                /\ ~hist.iter[3]
                /\ hist.iter[2] > 0
                /\ (hist.iter[2] * cfg.batchsize) % cfg.prog[e] = 0

C9_Witness ==
    /\ hist.iter # <<>>
    /\ hist.iter[1] > 0
    /\ "bleu" \in hist.fired
    /\ "details" \in hist.fired
    /\ ((hist.iter[1] * numbatches + hist.iter[2]) * cfg.batchsize)
           % cfg.prog.bleu # 0

\* C10 as stated: once done is set, no parameter, momentum buffer, learning
\* rate, momentum coefficient or step counter changes again.
C10_NothingChangesAfterStop ==
    [][done => UNCHANGED <<updates, status, eta_t, p_t, step>>]_vars

\* C10, amended: once done is set, no parameter or momentum buffer changes
\* again; the schedule (eta_t, p_t, step) changes exactly once more, in the
\* end-of-epoch scheduler step that follows the break, and never after it.
C10_ParametersFrozenAfterStop ==
    /\ [][done => /\ UNCHANGED <<updates, status, best, count>>
                  /\ pc # "epochend" => UNCHANGED <<eta_t, p_t, step>>
                  /\ pc = "epochend" => step' = step + 1 /\ pc' = "epoch"
                  /\ pc = "epoch" => pc' = "returned"]_vars
    /\ [](pc = "returned" /\ done => hist.schedAfterStop = 1)

C10_Witness ==
    /\ pc = "returned"
    /\ hist.stop = "patience"
    /\ hist.schedAfterStop = 1
    /\ step > epoch

\* ------------------------------------------------------ the scheduler
\* Runs of train() that do little but step the scheduler: at most two
\* minibatches an epoch, no evaluation (1 * batchsize is no multiple of
\* prog['_bleu']), T and the two momenta drawn from small sets.
SchedConfigs ==
    [N : {0, 2}, batchsize : {1}, maxepoch : {MaxT + 2},
     prog : [details : {2}, samples : {2}, update : {1}, bleu : {2}],
     T : 1..MaxT, p_i : {0, 50, 90}, p_f : {50, 90}, k : {5}]

InitSched ==
    /\ \E c \in SchedConfigs : TrainStart(c)
    /\ UpdateIdle /\ PartitionIdle /\ RunsIdle

SpecSched == InitSched /\ [][Next]_vars

\* C6: after a scheduler step has brought the step counter to `step`, p_t is
\* the linear interpolation (1 - step/T) * p_i + (step/T) * p_f while
\* step < T (strictly between p_i and p_f when they differ), and p_f from
\* step = T on.
C6_LinearAnnealing ==
    step > 0 =>
        IF step < cfg.T
        THEN /\ p_t * cfg.T = (cfg.T - step) * cfg.p_i + step * cfg.p_f
             /\ cfg.p_i < cfg.p_f => (cfg.p_i < p_t /\ p_t < cfg.p_f)
             /\ cfg.p_i > cfg.p_f => (cfg.p_i > p_t /\ p_t > cfg.p_f)
        ELSE p_t = cfg.p_f

\* ------------------------------------------------------ update_params
\* Exact rationals <<numerator, denominator>>, denominator > 0, in lowest terms.
RECURSIVE GCD(_, _)
GCD(a, b) == IF b = 0 THEN a ELSE GCD(b, a % b)

Abs(a) == IF a < 0 THEN -a ELSE a

Rat(n, d) ==
    LET g == GCD(Abs(n), Abs(d))
        sgn == IF d < 0 THEN -1 ELSE 1
    IN  <<sgn * (n \div g), sgn * (d \div g)>>

RAdd(x, y) == Rat(x[1] * y[2] + y[1] * x[2], x[2] * y[2])
RSub(x, y) == Rat(x[1] * y[2] - y[1] * x[2], x[2] * y[2])
RMul(x, y) == Rat(x[1] * y[1], x[2] * y[2])
Zero == <<0, 1>>
One == <<1, 1>>

ParamNames == {"C", "R", "bw", "M", "J", "bj"}

\* A bug update_params could have: the momentum term left out.
UpdateEntryNoMomentum(P, dP, g, r) ==
    LET d2 == RSub(Zero,
                   RMul(RMul(RSub(One, r.p_t), RMul(r.eta_t, Rat(1, r.batchsize))), g))
    IN  <<RAdd(P, d2), d2>>

\* One entry of one parameter:
\*   self.deltaP = self.p_t * self.deltaP - (1 - self.p_t) * (self.eta_t / batchsize) * self.dP
\*   self.P += self.deltaP
\* as <<P, deltaP>> after the call.
UpdateEntry(P, dP, g, r) ==
    LET d2 == RSub(RMul(r.p_t, dP),
                   RMul(RMul(RSub(One, r.p_t), RMul(r.eta_t, Rat(1, r.batchsize))), g))
    IN  <<RAdd(P, d2), d2>>

\* The state update_params is called in: any momentum buffers, a momentum
\* coefficient, a learning rate and the minibatch's size.
InitUpdate ==
    /\ params = [q \in ParamNames |-> One]
    /\ deltas \in [ParamNames -> {Zero, Rat(MaxDelta, 1)}]
    /\ rate \in [p_t : {Zero, Rat(1, 2), Rat(9, 10)},
                 eta_t : {Zero, Rat(1, 5)},
                 batchsize : 1..MaxBatch]
    /\ before = <<>>
    /\ TrainStart(CHOOSE c \in TrainConfigs : TRUE) /\ PartitionIdle /\ RunsIdle

\* update_params(X), on the gradients backward() left in self.dC ... self.dBj
update_params ==
    /\ rate # <<>>
    /\ before = <<>>
    /\ \E grads \in [ParamNames -> {Rat(-MaxGrad, 1), Rat(MaxGrad, 1)}] :
         LET new == [q \in ParamNames |->
                        UpdateEntry(params[q], deltas[q], grads[q], rate)]
         IN  /\ params' = [q \in ParamNames |-> new[q][1]]
             /\ deltas' = [q \in ParamNames |-> new[q][2]]
             /\ before' = [params |-> params, deltas |-> deltas, grads |-> grads]
    /\ UNCHANGED <<rate, trainVars, partVars, detVars>>

NextUpdate == update_params

SpecUpdate == InitUpdate /\ [][NextUpdate]_vars

\* C7 as stated: with eta_t = 0 a call leaves every parameter unchanged and
\* turns each momentum buffer into p_t times its previous value.
C7_ZeroRateLeavesParameters ==
    (before # <<>> /\ rate.eta_t = Zero) =>
        /\ params = before.params
        /\ \A q \in ParamNames : deltas[q] = RMul(rate.p_t, before.deltas[q])

\* C7, amended: with eta_t = 0 a call turns each momentum buffer into p_t
\* times its previous value, whatever the gradients, and adds that new buffer
\* to its parameter: a parameter is unchanged only where p_t * deltaP = 0.
C7_ZeroRateMovesByMomentum ==
    (before # <<>> /\ rate.eta_t = Zero) =>
        \A q \in ParamNames :
            /\ deltas[q] = RMul(rate.p_t, before.deltas[q])
            /\ params[q] = RAdd(before.params[q], RMul(rate.p_t, before.deltas[q]))

C7_Witness ==
    /\ before # <<>>
    /\ rate.eta_t = Zero
    /\ rate.p_t = Rat(1, 2)
    /\ before.deltas["R"] = One
    /\ params["R"] = Rat(3, 2)
    /\ params["bj"] = One

\* ------------------------------------------- the shuffle and the minibatches
Range(s) == {s[i] : i \in 1..Len(s)}

\* np.arange(n)
Arange(n) == [i \in 1..n |-> i - 1]

\* A bug the slicing could have: contiguous blocks, s[m*size:(m+1)*size].
ContiguousSlice(s, m, nb) ==
    LET size == Len(s) \div nb
    IN  [i \in 1..size |-> s[m * size + i]]

\* s[m::nb]: the entries at the 0-based positions m, m + nb, m + 2*nb, ...
StridedSlice(s, m, nb) ==
    LET n == IF m >= Len(s) THEN 0 ELSE (Len(s) - m + nb - 1) \div nb
    IN  [i \in 1..n |-> s[m + (i - 1) * nb + 1]]

partBatches == part.N \div part.batchsize

InitPartition ==
    /\ \E n \in 0..MaxShuffleN, b \in 1..MaxBatch :
         /\ part = [N |-> n, batchsize |-> b, maxepoch |-> 2, pc |-> "epoch",
                    epoch |-> 0, minibatch |-> 0, last |-> -1]
         /\ inds = Arange(n)
    /\ batch = <<>>
    /\ seen = <<>>
    /\ TrainStart(CHOOSE c \in TrainConfigs : TRUE) /\ UpdateIdle /\ RunsIdle

\* for epoch in range(self.maxepoch): prng = RandomState(self.seed + epoch + 1);
\* prng.shuffle(inds) -- for some seed: any rearrangement of inds
ShuffleEpoch ==
    /\ part # <<>>
    /\ part.pc = "epoch"
    /\ IF part.epoch >= part.maxepoch
       THEN /\ part' = [part EXCEPT !.pc = "returned"]
            /\ UNCHANGED <<inds, seen>>
       ELSE /\ \E f \in Permutations(1..part.N) :
                  inds' = [i \in 1..part.N |-> inds[f[i]]]
            /\ part' = [part EXCEPT
                          !.pc = IF partBatches > 0 THEN "batch" ELSE "epochend",
                          !.minibatch = 0, !.last = -1]
            /\ seen' = <<>>
    /\ UNCHANGED <<batch, trainVars, updateVars, detVars>>

\* batchX = X[inds[minibatch::numbatches]]
TakeMinibatch ==
    /\ part # <<>>
    /\ part.pc = "batch"
    /\ batch' = StridedSlice(inds, part.minibatch, partBatches)
    /\ seen' = seen \o batch'
    /\ part' = [part EXCEPT
                  !.last = part.minibatch,
                  !.minibatch = @ + 1,
                  !.pc = IF part.minibatch + 1 < partBatches THEN "batch" ELSE "epochend"]
    /\ UNCHANGED <<inds, trainVars, updateVars, detVars>>

FinishEpoch ==
    /\ part # <<>>
    /\ part.pc = "epochend"
    /\ part' = [part EXCEPT !.epoch = @ + 1, !.pc = "epoch"]
    /\ UNCHANGED <<inds, batch, seen, trainVars, updateVars, detVars>>

NextPartition == ShuffleEpoch \/ TakeMinibatch \/ FinishEpoch

SpecPartition == InitPartition /\ [][NextPartition]_vars

\* The 0-based positions of inds that minibatch m takes
Stripe(m) == {q \in 0..(part.N - 1) : q % partBatches = m}

\* C5: minibatch m holds exactly the entries of the shuffled inds at the
\* positions m, m + numbatches, m + 2*numbatches, ... below N, and the
\* minibatches of an epoch take every training example exactly once.  With
\* N = 23 and batchsize = 5, minibatch 0 is the positions 0,4,8,12,16,20 and
\* minibatch 1 the positions 1,5,9,13,17,21.
C5_StripedPartition ==
    /\ (part # <<>> /\ part.last >= 0) =>
          /\ Range(batch) = {inds[q + 1] : q \in Stripe(part.last)}
          /\ Len(batch) = Cardinality(Stripe(part.last))
    /\ (part # <<>> /\ part.pc = "epochend" /\ partBatches >= 1) =>
          \A x \in 0..(part.N - 1) :
              Cardinality({i \in 1..Len(seen) : seen[i] = x}) = 1
    /\ StridedSlice(Arange(23), 0, 23 \div 5) = <<0, 4, 8, 12, 16, 20>>
    /\ StridedSlice(Arange(23), 1, 23 \div 5) = <<1, 5, 9, 13, 17, 21>>

C5_Witness ==
    /\ part # <<>>
    /\ part.N = 5 /\ part.batchsize = 2
    /\ part.epoch = 1
    /\ part.pc = "epochend"
    /\ inds = <<3, 0, 4, 1, 2>>
    /\ batch = <<0, 1>>
    /\ seen = <<3, 4, 2, 0, 1>>

\* ---------------------------------------------- two runs of train()
\* A run's trajectory is recorded as the random draws that decide it: the
\* parameters after a minibatch are a function of the data, the
\* hyperparameters and these draws.  A draw from RandomState(s) is named by
\* its seed s: the same seed gives the same stream.  np.random.rand draws from
\* the process-wide generator, which this code never seeds: its values are
\* any values.
RunNames == {"A", "B"}

InitDeterminism ==
    /\ \E sd \in {7, 1234}, dr \in {0, 50} :
         runs = [i \in RunNames |->
                   [seed |-> sd, dropout |-> dr, numbatches |-> 1, maxepoch |-> MaxRunEpochs,
                    pc |-> "epoch", epoch |-> 0, minibatch |-> 0, shuffle |-> <<>>,
                    \* init_params: prng = RandomState(self.seed)
                    traj |-> << <<"RandomState", sd>> >>]]
    /\ TrainStart(CHOOSE c \in TrainConfigs : TRUE) /\ UpdateIdle /\ PartitionIdle

\* for epoch in range(self.maxepoch): prng = RandomState(self.seed + epoch + 1);
\* prng.shuffle(inds)
RunEpochHead(i) ==
    LET r == runs[i] IN
    /\ runs # <<>>
    /\ r.pc = "epoch"
    /\ runs' = [runs EXCEPT ![i] =
                  IF r.epoch >= r.maxepoch
                  THEN [r EXCEPT !.pc = "returned"]
                  ELSE [r EXCEPT !.pc = "batch", !.minibatch = 0,
                                 !.shuffle = <<"RandomState", r.seed + r.epoch + 1>>]]
    /\ UNCHANGED <<trainVars, updateVars, partVars>>

\* forward(batchX, batchIm, test=False): if self.dropout > 0 and not test:
\*     dropmask = np.random.rand(batchsize, self.h) > self.dropout
\* then backward and update_params
RunMinibatch(i) ==
    LET r == runs[i] IN
    /\ runs # <<>>
    /\ r.pc = "batch"
    /\ \E dropmask \in IF r.dropout > 0 THEN SUBSET (1..MaskCells) ELSE {1..MaskCells} :
         runs' = [runs EXCEPT ![i] =
                    [r EXCEPT !.traj = Append(@, <<r.shuffle, r.minibatch, dropmask>>),
                              !.minibatch = @ + 1,
                              !.pc = IF r.minibatch + 1 < r.numbatches
                                     THEN "batch" ELSE "epochend"]]
    /\ UNCHANGED <<trainVars, updateVars, partVars>>

RunEpochEnd(i) ==
    LET r == runs[i] IN
    /\ runs # <<>>
    /\ r.pc = "epochend"
    /\ runs' = [runs EXCEPT ![i] = [r EXCEPT !.epoch = @ + 1, !.pc = "epoch"]]
    /\ UNCHANGED <<trainVars, updateVars, partVars>>

NextDeterminism ==
    \E i \in RunNames : RunEpochHead(i) \/ RunMinibatch(i) \/ RunEpochEnd(i)

SpecDeterminism == InitDeterminism /\ [][NextDeterminism]_vars

\* C8: two runs with the same seed, data and hyperparameters, dropout > 0
\* included, go through the same parameters: as far as both have run, their
\* trajectories agree.
C8_SameSeedSameTrajectory ==
    runs # <<>> =>
        \A n \in 1..Len(runs["A"].traj) :
            n <= Len(runs["B"].traj) => runs["A"].traj[n] = runs["B"].traj[n]

====
